---- MODULE Spec2Model ----
(***************************************************************************)
(* Model of LinkedCV: the text-analysis core of src/src/app/page.tsx       *)
(* (parseAbout, deriveTraits, extractStats), the Home component of the     *)
(* same file and the two API routes it calls (src/unnamed/part_001).       *)
(*                                                                         *)
(* Texts are TLA+ strings, read character by character with SubSeq.  The   *)
(* module is written in ASCII, so four non-ASCII characters of the source  *)
(* are written with an ASCII stand-in that occurs nowhere else in a text:  *)
(*     "*"  stands for U+2022 (the bullet glyph),                          *)
(*     "~"  stands for U+00B7 (the middle-dot glyph),                      *)
(*     "#"  stands for U+00A3 (pound sign),                                *)
(*     "^"  stands for U+20AC (euro sign).                                 *)
(***************************************************************************)
EXTENDS Integers, Sequences, FiniteSets, TLC

VARIABLES
    pc,         \* "ready": the input is chosen, "done": the function has returned
    about,      \* parseAbout's argument (cv.about)
    segments,   \* parseAbout's result {intro, highlights, closing}
    cv,         \* deriveTraits' argument (a CVData record)
    traits,     \* deriveTraits' result
    desc,       \* extractStats' argument (one role description)
    stats,      \* extractStats' result
    state,          \* Home: "idle", "loading" or "result"
    mode,           \* Home: "url" or "paste"
    url,            \* Home: the URL field
    profileText,    \* Home: the state variable text (the pasted profile)
    photoUrl,       \* Home
    photoPreview,   \* Home
    personalInfo,   \* Home
    showPersonal,   \* Home
    error,          \* Home: Null or [message |-> the message]
    request,        \* the fetch handleGenerate awaits, with the values its closure holds
    reader          \* the files that FileReaders started by handlePaste are reading

\* In the specification of Home, cv is Home's state variable cv: null or the
\* record handed to CVPage.
homeVars == <<state, mode, url, profileText, photoUrl, photoPreview, personalInfo,
              showPersonal, error, request, reader>>

\* what the calls of the three analysis functions read and write, cv apart
coreVars == <<pc, about, segments, traits, desc, stats>>

vars == <<pc, about, segments, cv, traits, desc, stats, homeVars>>

\* JavaScript's null
Null == [null |-> TRUE]

\* no fetch awaited
None == [none |-> TRUE]

\* the useState initial values of Home (cv apart)
HomeInitial ==
    /\ state = "idle"
    /\ mode = "url"
    /\ url = ""
    /\ profileText = ""
    /\ photoUrl = ""
    /\ photoPreview = ""
    /\ personalInfo = ""
    /\ showPersonal = FALSE
    /\ error = Null
    /\ request = None
    /\ reader = {}

(***************************************************************************)
(* Bounds of the model.                                                    *)
(***************************************************************************)
MaxAboutLen == 4

(***************************************************************************)
(* JavaScript string primitives.                                           *)
(***************************************************************************)
Char(s, i) == SubSeq(s, i, i)

Min(S) == CHOOSE x \in S : \A y \in S : x <= y

Max(S) == CHOOSE x \in S : \A y \in S : x >= y

BULLET == "*"

MIDDOT == "~"

\* the character class [•·]
IsGlyph(c) == c \in {BULLET, MIDDOT}

\* the character class \s, which is also what String.prototype.trim removes
IsSpace(c) == c \in {" ", "\t", "\n", "\r"}

\* String.prototype.trim
trim(s) ==
    LET keep == {i \in 1..Len(s) : ~IsSpace(Char(s, i))}
    IN  IF keep = {} THEN "" ELSE SubSeq(s, Min(keep), Max(keep))

\* String.prototype.indexOf for a one-character needle: 0-based, -1 when absent
indexOf(s, c) ==
    LET hits == {i \in 1..Len(s) : Char(s, i) = c}
    IN  IF hits = {} THEN -1 ELSE Min(hits) - 1

\* String.prototype.slice(from, to) for 0 <= from <= to <= length
slice(s, from, to) == SubSeq(s, from + 1, to)

\* Array.prototype.join
RECURSIVE join(_, _)
join(parts, sep) ==
    IF parts = <<>> THEN ""
    ELSE IF Len(parts) = 1 THEN parts[1]
    ELSE parts[1] \o sep \o join(Tail(parts), sep)

\* text.split(/\n{2,}/): the pieces between the maximal runs of two or more newlines
RECURSIVE splitBlankLines(_)
splitBlankLines(s) ==
    LET starts == {i \in 1..(Len(s) - 1) : Char(s, i) = "\n" /\ Char(s, i + 1) = "\n"}
    IN  IF starts = {} THEN <<s>>
        ELSE LET b == Min(starts)
                 after == {j \in b..Len(s) : Char(s, j) # "\n"}
                 e == IF after = {} THEN Len(s) + 1 ELSE Min(after)
             IN  <<SubSeq(s, 1, b - 1)>> \o splitBlankLines(SubSeq(s, e, Len(s)))

(***************************************************************************)
(* parseAbout                                                              *)
(***************************************************************************)
\* /[•·]/.test(text)
hasBullets(text) == \E i \in 1..Len(text) : IsGlyph(Char(text, i))

\* splitParas with the .map((p) => p.trim()) step forgotten
splitParas_NoTrim(text) == SelectSeq(splitBlankLines(text), LAMBDA p : p # "")

\* text.split(/\n{2,}/).map((p) => p.trim()).filter(Boolean)
splitParas(text) ==
    LET pieces == splitBlankLines(text)
        trimmed == [i \in 1..Len(pieces) |-> trim(pieces[i])]
    IN  SelectSeq(trimmed, LAMBDA p : p # "")

\* noBulletIntro with the trailing "|| text" forgotten
noBulletIntro_NoFallback(paras, text) ==
    LET joined == IF paras = <<>> THEN "" ELSE join(SubSeq(paras, 1, Len(paras) - 1), "\n\n")
    IN  IF joined # "" THEN joined
        ELSE IF paras # <<>> /\ paras[1] # "" THEN paras[1]
        ELSE ""

\* paras.slice(0, -1).join("\n\n") || paras[0] || text
noBulletIntro(paras, text) ==
    LET joined == IF paras = <<>> THEN "" ELSE join(SubSeq(paras, 1, Len(paras) - 1), "\n\n")
    IN  IF joined # "" THEN joined
        ELSE IF paras # <<>> /\ paras[1] # "" THEN paras[1]
        ELSE text

\* noBulletClosing with the length test off by one (paras.length > 2)
noBulletClosing_OffByOne(paras) == IF Len(paras) > 2 THEN paras[Len(paras)] ELSE ""

\* paras.length > 1 ? paras[paras.length - 1] : ""
noBulletClosing(paras) == IF Len(paras) > 1 THEN paras[Len(paras)] ELSE ""

\* text.indexOf(BULLET) !== -1 ? text.indexOf(BULLET) : text.indexOf(MIDDOT)
firstBullet(text) ==
    IF indexOf(text, BULLET) # -1 THEN indexOf(text, BULLET) ELSE indexOf(text, MIDDOT)

\* rest.match(/[•·][^•·]+/g) ?? []
RECURSIVE bulletMatches(_)
bulletMatches(rest) ==
    LET starts == {i \in 1..(Len(rest) - 1) :
                       IsGlyph(Char(rest, i)) /\ ~IsGlyph(Char(rest, i + 1))}
    IN  IF starts = {} THEN <<>>
        ELSE LET b == Min(starts)
                 nexts == {j \in (b + 1)..Len(rest) : IsGlyph(Char(rest, j))}
                 e == IF nexts = {} THEN Len(rest) ELSE Min(nexts) - 1
             IN  <<SubSeq(rest, b, e)>> \o bulletMatches(SubSeq(rest, e + 1, Len(rest)))

\* b.replace(/^[•·]\s*/, "").trim()
stripBullet(b) ==
    IF b # "" /\ IsGlyph(Char(b, 1)) THEN trim(SubSeq(b, 2, Len(b))) ELSE trim(b)

\* bulletMatches.map(stripBullet).filter(Boolean)
bulletsOf(rest) ==
    LET ms == bulletMatches(rest)
        stripped == [i \in 1..Len(ms) |-> stripBullet(ms[i])]
    IN  SelectSeq(stripped, LAMBDA b : b # "")

\* (last.match(/\.\s/g) ?? []).length
sentenceBreaks(last) ==
    Cardinality({i \in 1..(Len(last) - 1) : Char(last, i) = "." /\ IsSpace(Char(last, i + 1))})

ClosingMinBreaks == 2

ClosingMinLength == 150

\* looksLikeClosing with a length threshold of 100 instead of 150
looksLikeClosing_Len100(last) ==
    sentenceBreaks(last) >= ClosingMinBreaks \/ Len(last) > 100

\* (last.match(/\.\s/g) ?? []).length >= 2 || last.length > 150
looksLikeClosing(last) ==
    sentenceBreaks(last) >= ClosingMinBreaks \/ Len(last) > ClosingMinLength

\* bulletIntro with the end of the slice off by one
bulletIntro_OffByOne(text, fb) == IF fb = 0 THEN "" ELSE trim(slice(text, 0, fb - 1))

\* text.slice(0, firstBullet).trim()
bulletIntro(text, fb) == trim(slice(text, 0, fb))

\* text.slice(firstBullet)
bulletRest(text, fb) == slice(text, fb, Len(text))

parseAbout(text) ==
    IF ~hasBullets(text)
    THEN LET paras == splitParas(text)
         IN  [intro |-> noBulletIntro(paras, text),
              highlights |-> <<>>,
              closing |-> noBulletClosing(paras)]
    ELSE LET fb == firstBullet(text)
             intro == bulletIntro(text, fb)
             rest == bulletRest(text, fb)
             bullets == bulletsOf(rest)
             reclassify == bullets # <<>> /\ looksLikeClosing(bullets[Len(bullets)])
         IN  [intro |-> intro,
              highlights |-> IF reclassify THEN SubSeq(bullets, 1, Len(bullets) - 1)
                             ELSE bullets,
              closing |-> IF reclassify THEN bullets[Len(bullets)] ELSE ""]

(***************************************************************************)
(* deriveTraits                                                            *)
(***************************************************************************)
UpperLetters == "ABCDEFGHIJKLMNOPQRSTUVWXYZ"

LowerLetters == "abcdefghijklmnopqrstuvwxyz"

Digits == {"0", "1", "2", "3", "4", "5", "6", "7", "8", "9"}

UpperSet == {Char(UpperLetters, i) : i \in 1..Len(UpperLetters)}

LowerSet == {Char(LowerLetters, i) : i \in 1..Len(LowerLetters)}

LowerOf == [c \in UpperSet |->
               Char(LowerLetters, CHOOSE i \in 1..Len(UpperLetters) : Char(UpperLetters, i) = c)]

\* String.prototype.toLowerCase
RECURSIVE toLowerCase(_)
toLowerCase(s) ==
    IF s = "" THEN ""
    ELSE IF Len(s) = 1 THEN (IF s \in UpperSet THEN LowerOf[s] ELSE s)
    ELSE LET half == Len(s) \div 2
         IN  toLowerCase(SubSeq(s, 1, half)) \o toLowerCase(SubSeq(s, half + 1, Len(s)))

\* the character class \w
IsWord(c) == c \in UpperSet \cup LowerSet \cup Digits \cup {"_"}

\* the character class \d
IsDigit(c) == c \in Digits

\* what "." matches: any character but a line terminator
IsAny(c) == c \notin {"\n", "\r"}

\* the positions i of 1..Len(t)+1 where \b holds between t[i-1] and t[i]
wordBoundaries(t) ==
    {i \in 1..(Len(t) + 1) :
        (i > 1 /\ IsWord(Char(t, i - 1))) # (i <= Len(t) /\ IsWord(Char(t, i)))}

\* the pattern p (literal characters, "." for any character) matches t at i
patternAt(t, i, p) ==
    /\ i + Len(p) - 1 <= Len(t)
    /\ \A k \in 1..Len(p) :
          IF Char(p, k) = "." THEN IsAny(Char(t, i + k - 1))
          ELSE Char(t, i + k - 1) = Char(p, k)

\* /\b(p1|p2|...)\b/.test(t), for the alternatives alts; bs is wordBoundaries(t)
wordTestAt(t, bs, alts) ==
    \E p \in alts : \E i \in bs : (i + Len(p)) \in bs /\ patternAt(t, i, p)

wordTest(t, alts) == wordTestAt(t, wordBoundaries(t), alts)

\* /\b(\d+c)\b/.test(t): a run of digits followed by the character c
digitsThenTestAt(t, bs, c) ==
    \E j \in 2..Len(t) :
        /\ Char(t, j) = c
        /\ (j + 1) \in bs
        /\ \E i \in bs : i < j /\ \A k \in i..(j - 1) : IsDigit(Char(t, k))

\* Array.prototype.some over the titles
someTitle(titles, alts) == \E k \in 1..Len(titles) : wordTest(titles[k], alts)

\* Array.prototype.flatMap(e => [e.title ?? "", e.description ?? ""])
RECURSIVE titleAndDescription(_)
titleAndDescription(experience) ==
    IF experience = <<>> THEN <<>>
    ELSE <<experience[1].title, experience[1].description>>
             \o titleAndDescription(Tail(experience))

\* the text surface; an absent optional field is the empty string (?? "")
allTextOf(c) ==
    toLowerCase(join(<<c.about, c.headline>> \o titleAndDescription(c.experience)
                         \o <<c.personalInfo>>, " "))

titlesOf(c) == [k \in 1..Len(c.experience) |-> toLowerCase(c.experience[k].title)]

SkillsThreshold == 6

CertificationsThreshold == 1

ExperienceThreshold == 4

\* the sixteen rules of deriveTraits, in the order of the source
ruleTable(c) ==
    LET allText == allTextOf(c)
        titles == titlesOf(c)
        bs == wordBoundaries(allText)
    IN  << [label |-> "Natural Leader",
            matches |-> someTitle(titles, {"lead", "manager", "head of", "director", "vp ",
                                           "chief", "president", "senior"})],
           [label |-> "Strategic Thinker",
            matches |-> \/ someTitle(titles, {"strateg", "head of", "director", "vp ",
                                              "chief", "principal"})
                        \/ wordTestAt(allText, bs, {"strateg", "vision", "roadmap", "executive"})],
           [label |-> "Results-Driven",
            matches |-> \/ digitsThenTestAt(allText, bs, "%")
                        \/ digitsThenTestAt(allText, bs, "x")
                        \/ wordTestAt(allText, bs, {"revenue", "growth", "delivered", "impact",
                                              "results", "targets", "exceeded"})],
           [label |-> "Team Player",
            matches |-> wordTestAt(allText, bs, {"team", "collaborat", "cross.functional",
                                           "stakeholder", "partner"})],
           [label |-> "Strong Communicator",
            matches |-> wordTestAt(allText, bs, {"communicat", "present", "client", "customer",
                                           "relations", "stakeholder"})],
           [label |-> "Technically Fluent",
            matches |-> \/ Len(c.skills) >= SkillsThreshold
                        \/ wordTestAt(allText, bs, {"engineer", "developer", "architect",
                                              "software", "technical"})],
           [label |-> "Entrepreneurial",
            matches |-> wordTestAt(allText, bs, {"founder", "co.founder", "entrepreneur",
                                           "startup", "self.employ"})],
           [label |-> "Data-Driven",
            matches |-> wordTestAt(allText, bs, {"data", "analytic", "insight", "research",
                                           "metrics", "kpi", "dashboard"})],
           [label |-> "Continuous Learner",
            matches |-> \/ Len(c.certifications) >= CertificationsThreshold
                        \/ wordTestAt(allText, bs, {"certif", "upskill", "course"})],
           [label |-> "Resilient",
            matches |-> \/ Len(c.experience) >= ExperienceThreshold
                        \/ wordTestAt(allText, bs, {"adapt", "resilien", "pivot", "transiti",
                                              "versatil"})],
           [label |-> "Driven",
            matches |-> wordTestAt(allText, bs, {"passion", "driven", "motivat", "commit", "dedic",
                                           "enthusias", "ambiti"})],
           [label |-> "High Performer",
            matches |-> wordTestAt(allText, bs, {"marathon", "sport", "run", "football", "cricket",
                                           "gym", "fitness", "athlet", "swim", "cycl", "hik",
                                           "climb", "compet"})],
           [label |-> "Mentor & Coach",
            matches |-> wordTestAt(allText, bs, {"coach", "mentor", "teach", "train", "guide",
                                           "volunteer"})],
           [label |-> "Creative",
            matches |-> wordTestAt(allText, bs, {"creativ", "design", "brand", "market", "storytell",
                                           "content", "innovat"})],
           [label |-> "Global Mindset",
            matches |-> wordTestAt(allText, bs, {"global", "international", "multinational",
                                           "cross.border", "worldwide"})],
           [label |-> "Problem Solver",
            matches |-> wordTestAt(allText, bs, {"problem.solv", "solution", "complex",
                                           "troubleshoot", "optimi"})] >>

\* the labels pushed by the rules that match, in table order
RECURSIVE pushMatching(_)
pushMatching(table) ==
    IF table = <<>> THEN <<>>
    ELSE (IF table[1].matches THEN <<table[1].label>> ELSE <<>>) \o pushMatching(Tail(table))

\* Array.prototype.includes
includes(q, x) == \E k \in 1..Len(q) : q[k] = x

FallbackResilientBelow == 3

FallbackTeamPlayerBelow == 4

\* ensureFew with traits.unshift("Driven") in place of traits.push("Driven")
ensureFew_DrivenFirst(pushed) ==
    LET t1 == IF ~includes(pushed, "Driven") THEN <<"Driven">> \o pushed ELSE pushed
        t2 == IF Len(t1) < FallbackResilientBelow /\ ~includes(t1, "Resilient")
              THEN Append(t1, "Resilient") ELSE t1
        t3 == IF Len(t2) < FallbackTeamPlayerBelow /\ ~includes(t2, "Team Player")
              THEN Append(t2, "Team Player") ELSE t2
    IN  t3

\* ensureFew with the Resilient test traits.length < 2
ensureFew_ResilientBelow2(pushed) ==
    LET t1 == IF ~includes(pushed, "Driven") THEN Append(pushed, "Driven") ELSE pushed
        t2 == IF Len(t1) < FallbackResilientBelow - 1 /\ ~includes(t1, "Resilient")
              THEN Append(t1, "Resilient") ELSE t1
        t3 == IF Len(t2) < FallbackTeamPlayerBelow /\ ~includes(t2, "Team Player")
              THEN Append(t2, "Team Player") ELSE t2
    IN  t3

\* the three "Ensure at least a few traits" statements
ensureFew(pushed) ==
    LET t1 == IF ~includes(pushed, "Driven") THEN Append(pushed, "Driven") ELSE pushed
        t2 == IF Len(t1) < FallbackResilientBelow /\ ~includes(t1, "Resilient")
              THEN Append(t1, "Resilient") ELSE t1
        t3 == IF Len(t2) < FallbackTeamPlayerBelow /\ ~includes(t2, "Team Player")
              THEN Append(t2, "Team Player") ELSE t2
    IN  t3

\* [...new Set(q)]: q without the later occurrences of a repeated element
RECURSIVE unique(_)
unique(q) ==
    IF q = <<>> THEN <<>>
    ELSE LET front == unique(SubSeq(q, 1, Len(q) - 1))
             x == q[Len(q)]
         IN  IF includes(front, x) THEN front ELSE Append(front, x)

MaxTraits == 8

\* capTraits with the cap off by one (slice(0, 9))
capTraits_OffByOne(q) == SubSeq(q, 1, IF Len(q) < MaxTraits + 1 THEN Len(q) ELSE MaxTraits + 1)

\* q.slice(0, 8)
capTraits(q) == SubSeq(q, 1, IF Len(q) < MaxTraits THEN Len(q) ELSE MaxTraits)

deriveTraits(c) == capTraits(unique(ensureFew(pushMatching(ruleTable(c)))))

(***************************************************************************)
(* extractStats                                                            *)
(***************************************************************************)
\* the character at position i (1-based), "" outside the text
charAt(t, i) == IF i >= 1 /\ i <= Len(t) THEN Char(t, i) ELSE ""

UpperOf == [c \in LowerSet |->
               Char(UpperLetters, CHOOSE i \in 1..Len(LowerLetters) : Char(LowerLetters, i) = c)]

\* String.prototype.toUpperCase, for one character
toUpperChar(c) == IF c \in LowerSet THEN UpperOf[c] ELSE c

\* the last position of the maximal run of digits that starts at i (t[i] is a digit)
runEnd(t, i) == Min({j \in i..Len(t) : ~IsDigit(charAt(t, j + 1))})

\* the last position matched by \d+(?:\.\d+)? at i when the fraction is taken, 0 if none
fractionEnd(t, i) ==
    LET a == runEnd(t, i)
    IN  IF charAt(t, a + 1) = "." /\ IsDigit(charAt(t, a + 2)) THEN runEnd(t, a + 2) ELSE 0

\* the position after a greedy \s* that starts at i
skipSpaces(t, i) == Min({j \in i..(Len(t) + 1) : ~IsSpace(charAt(t, j))})

\* the literal p occurs in s at position i
startsWithAt(s, i, p) == i + Len(p) - 1 <= Len(s) /\ SubSeq(s, i, i + Len(p) - 1) = p

\* /p/.test(s) for a literal p
contains(s, p) == \E i \in 1..(Len(s) - Len(p) + 1) : SubSeq(s, i, i + Len(p) - 1) = p

containsAny(s, ps) == \E p \in ps : contains(s, p)

POUND == "#"

EURO == "^"

CurrencySymbols == {POUND, "$", EURO}

MagnitudeSuffixes == {"M", "K", "B", "m", "k", "b"}

MaxStats == 4

\* add with results.unshift in place of results.push
add_Unshift(st, value, label) ==
    IF value \notin st.seen /\ Len(st.results) < MaxStats
    THEN [results |-> <<[value |-> value, label |-> label]>> \o st.results,
          seen |-> st.seen \cup {value}]
    ELSE st

\* add with the seen.has(value) test forgotten
add_NoDedupe(st, value, label) ==
    IF Len(st.results) < MaxStats
    THEN [results |-> Append(st.results, [value |-> value, label |-> label]),
          seen |-> st.seen \cup {value}]
    ELSE st

\* add with the results.length < 4 test forgotten
add_NoCap(st, value, label) ==
    IF value \notin st.seen
    THEN [results |-> Append(st.results, [value |-> value, label |-> label]),
          seen |-> st.seen \cup {value}]
    ELSE st

\* extractStats.add; st holds the closure's results and seen
add(st, value, label) ==
    IF value \notin st.seen /\ Len(st.results) < MaxStats
    THEN [results |-> Append(st.results, [value |-> value, label |-> label]),
          seen |-> st.seen \cup {value}]
    ELSE st

\* the last position of the match of /([£$€])(\d+(?:\.\d+)?)([MKBmkb])\b/ at i, 0 if none
currencyEnd(t, i) ==
    IF charAt(t, i) \in CurrencySymbols /\ IsDigit(charAt(t, i + 1))
    THEN LET a == runEnd(t, i + 1)
             b == fractionEnd(t, i + 1)
             suffixAfter(e) == charAt(t, e + 1) \in MagnitudeSuffixes /\ ~IsWord(charAt(t, e + 2))
         IN  IF b # 0 /\ suffixAfter(b) THEN b + 1
             ELSE IF suffixAfter(a) THEN a + 1
             ELSE 0
    ELSE 0

\* the last position of the match of /(\d+(?:\.\d+)?)%/ at i, 0 if none
percentEnd(t, i) ==
    IF IsDigit(charAt(t, i))
    THEN LET a == runEnd(t, i)
             b == fractionEnd(t, i)
         IN  IF b # 0 /\ charAt(t, b + 1) = "%" THEN b + 1
             ELSE IF charAt(t, a + 1) = "%" THEN a + 1
             ELSE 0
    ELSE 0

\* String.prototype.matchAll for a global pattern: the matches from left to right,
\* each starting at or after the end of the one before; ends[i] is the last
\* position of the pattern's match at i, 0 if none
RECURSIVE matchAll(_, _)
matchAll(ends, from) ==
    LET starts == {i \in from..Len(ends) : ends[i] # 0}
    IN  IF starts = {} THEN <<>>
        ELSE LET i == Min(starts)
             IN  <<[first |-> i, last |-> ends[i]]>> \o matchAll(ends, ends[i] + 1)

\* desc.matchAll(/([£$€])(\d+(?:\.\d+)?)([MKBmkb])\b/g)
currencyMatches(t) == matchAll([i \in 1..Len(t) |-> currencyEnd(t, i)], 1)

\* desc.matchAll(/(\d+(?:\.\d+)?)%/g)
percentMatches(t) == matchAll([i \in 1..Len(t) |-> percentEnd(t, i)], 1)

CurrencyBefore == 35

PercentBefore == 45

ContextAfter == 35

\* contextOf with the slice before the match left out
contextOf_AfterOnly(t, m, before) ==
    LET hi == IF m.last + ContextAfter > Len(t) THEN Len(t) ELSE m.last + ContextAfter
    IN  toLowerCase(SubSeq(t, m.last + 1, hi))

\* (desc.slice(Math.max(0, m.index - before), m.index)
\*    + desc.slice(m.index + m[0].length, m.index + m[0].length + 35)).toLowerCase()
contextOf(t, m, before) ==
    LET lo == IF m.first - before < 1 THEN 1 ELSE m.first - before
        hi == IF m.last + ContextAfter > Len(t) THEN Len(t) ELSE m.last + ContextAfter
    IN  toLowerCase(SubSeq(t, lo, m.first - 1) \o SubSeq(t, m.last + 1, hi))

currencyLabel(ctx) ==
    IF contains(ctx, "sav") THEN "Savings"
    ELSE IF containsAny(ctx, {"revenue", "sales"}) THEN "Revenue"
    ELSE IF contains(ctx, "fund") THEN "Funding"
    ELSE IF containsAny(ctx, {"contract", "deal"}) THEN "Contracts"
    ELSE IF contains(ctx, "budget") THEN "Budget"
    ELSE "Value"

percentLabel(ctx) ==
    IF containsAny(ctx, {"revenue", "sales", "grow"}) THEN "Revenue Growth"
    ELSE IF containsAny(ctx, {"cost", "spend", "budget"}) THEN "Cost Reduction"
    ELSE IF contains(ctx, "efficien") THEN "Efficiency Gain"
    ELSE IF containsAny(ctx, {"retention", "churn"}) THEN "Retention"
    ELSE IF contains(ctx, "conversion") THEN "Conversion"
    ELSE IF containsAny(ctx, {"reduc", "decreas", "cut"}) THEN "Reduction"
    ELSE "Improvement"

\* `${m[1]}${m[2]}${m[3].toUpperCase()}`
currencyValue(t, m) == SubSeq(t, m.first, m.last - 1) \o toUpperChar(Char(t, m.last))

\* `${m[1]}%`
percentValue(t, m) == SubSeq(t, m.first, m.last)

\* the first for loop walking the matches from the last to the first
RECURSIVE addCurrencies_Reversed(_, _, _)
addCurrencies_Reversed(st, t, ms) ==
    IF ms = <<>> THEN st
    ELSE addCurrencies_Reversed(add(st, currencyValue(t, ms[Len(ms)]),
                                    currencyLabel(contextOf(t, ms[Len(ms)], CurrencyBefore))),
                                t, SubSeq(ms, 1, Len(ms) - 1))

\* the first for loop reading 45 characters before the match, as the second does
RECURSIVE addCurrencies_Window45(_, _, _)
addCurrencies_Window45(st, t, ms) ==
    IF ms = <<>> THEN st
    ELSE addCurrencies_Window45(add(st, currencyValue(t, ms[1]),
                                    currencyLabel(contextOf(t, ms[1], PercentBefore))),
                                t, Tail(ms))

\* the body of the first for loop, over the matches ms
RECURSIVE addCurrencies(_, _, _)
addCurrencies(st, t, ms) ==
    IF ms = <<>> THEN st
    ELSE addCurrencies(add(st, currencyValue(t, ms[1]),
                           currencyLabel(contextOf(t, ms[1], CurrencyBefore))),
                       t, Tail(ms))

\* the second for loop reading 35 characters before the match, as the first does
RECURSIVE addPercents_Window35(_, _, _)
addPercents_Window35(st, t, ms) ==
    IF ms = <<>> THEN st
    ELSE addPercents_Window35(add(st, percentValue(t, ms[1]),
                                  percentLabel(contextOf(t, ms[1], CurrencyBefore))),
                              t, Tail(ms))

\* the body of the second for loop, over the matches ms
RECURSIVE addPercents(_, _, _)
addPercents(st, t, ms) ==
    IF ms = <<>> THEN st
    ELSE addPercents(add(st, percentValue(t, ms[1]),
                         percentLabel(contextOf(t, ms[1], PercentBefore))),
                     t, Tail(ms))

TeamVerbs == <<"lead", "led", "manag", "oversee", "oversaw", "supervis">>

TeamNouns == {"people", "person", "staff", "engineer", "dev", "member", "report", "direct",
              "head"}

TeamMaxGap == 25

TeamMaxDigits == 3

\* the digits captured by
\* /(?:lead|led|manag|oversee|oversaw|supervis)[^.]{0,25}?(\d{1,3})\s*(?:people|...|head)/i
\* when the verb ends at position q - 1 and the lazy gap has g characters; "" if no match
teamCaptureAt(t, low, q, g) ==
    LET d == q + g
    IN  IF /\ \A k \in q..(d - 1) : k <= Len(t) /\ Char(t, k) # "."
           /\ IsDigit(charAt(t, d))
        THEN LET a == runEnd(t, d)
                 w == skipSpaces(t, a + 1)
             IN  IF a - d + 1 <= TeamMaxDigits /\ \E n \in TeamNouns : startsWithAt(low, w, n)
                 THEN SubSeq(t, d, a)
                 ELSE ""
        ELSE ""

\* desc.match(<the leadership-verb pattern>): <<capture>> of the leftmost match, the
\* first verb alternative and the shortest gap, or <<>> for null
teamVerbMatch(t) ==
    LET low == toLowerCase(t)
        hits == {i \in 1..Len(t) : \E v \in 1..Len(TeamVerbs) : \E g \in 0..TeamMaxGap :
                     /\ startsWithAt(low, i, TeamVerbs[v])
                     /\ teamCaptureAt(t, low, i + Len(TeamVerbs[v]), g) # ""}
    IN  IF hits = {} THEN <<>>
        ELSE LET i == Min(hits)
                 v == Min({u \in 1..Len(TeamVerbs) : \E g \in 0..TeamMaxGap :
                              /\ startsWithAt(low, i, TeamVerbs[u])
                              /\ teamCaptureAt(t, low, i + Len(TeamVerbs[u]), g) # ""})
                 q == i + Len(TeamVerbs[v])
                 g == Min({h \in 0..TeamMaxGap : teamCaptureAt(t, low, q, h) # ""})
             IN  <<teamCaptureAt(t, low, q, g)>>

\* teamOfMatch with the quantifier {0,3} in place of {1,3}
teamOfMatch_AllowsNoDigits(t) ==
    LET low == toLowerCase(t)
        lead == "team of "
        hits == {i \in 1..Len(t) : startsWithAt(low, i, lead)}
    IN  IF hits = {} THEN <<>>
        ELSE LET d == Min(hits) + Len(lead)
                 a == IF IsDigit(charAt(t, d)) THEN runEnd(t, d) ELSE d - 1
             IN  <<SubSeq(t, d, IF a - d + 1 > TeamMaxDigits THEN d + TeamMaxDigits - 1 ELSE a)>>

\* desc.match(/team of (\d{1,3})/i): <<capture>> or <<>>
teamOfMatch(t) ==
    LET low == toLowerCase(t)
        lead == "team of "
        hits == {i \in 1..Len(t) : startsWithAt(low, i, lead) /\ IsDigit(charAt(t, i + Len(lead)))}
    IN  IF hits = {} THEN <<>>
        ELSE LET d == Min(hits) + Len(lead)
                 a == runEnd(t, d)
             IN  <<SubSeq(t, d, IF a - d + 1 > TeamMaxDigits THEN d + TeamMaxDigits - 1 ELSE a)>>

\* teamMatch with the two patterns tried in the other order
teamMatch_TeamOfFirst(t) == IF teamOfMatch(t) # <<>> THEN teamOfMatch(t) ELSE teamVerbMatch(t)

\* teamM = desc.match(verb pattern) || desc.match(/team of (\d{1,3})/i)
teamMatch(t) == IF teamVerbMatch(t) # <<>> THEN teamVerbMatch(t) ELSE teamOfMatch(t)

\* desc.match(/(\d+)\s*\+?\s*(?:n1|n2|...)\b/i): <<capture>> of the leftmost match or <<>>
countMatch(t, nouns) ==
    LET low == toLowerCase(t)
        matchAt(i) ==
            /\ IsDigit(charAt(t, i))
            /\ LET a == runEnd(t, i)
                   w1 == skipSpaces(t, a + 1)
                   w == IF charAt(t, w1) = "+" THEN skipSpaces(t, w1 + 1) ELSE w1
               IN  \E n \in nouns : startsWithAt(low, w, n) /\ ~IsWord(charAt(t, w + Len(n)))
        hits == {i \in 1..Len(t) : matchAt(i)}
    IN  IF hits = {} THEN <<>>
        ELSE <<SubSeq(t, Min(hits), runEnd(t, Min(hits)))>>

ClientNouns == {"client", "customer", "user", "account"}

ProjectNouns == {"project", "product", "initiative", "programme"}

MarketNouns == {"countr", "market", "region", "office", "site"}

\* extractStats that emits the Markets number as captured, without the suffix
extractStats_MarketsBare(t) ==
    LET s0 == [results |-> <<>>, seen |-> {}]
        s1 == addCurrencies(s0, t, currencyMatches(t))
        s2 == addPercents(s1, t, percentMatches(t))
        teamM == teamMatch(t)
        s3 == IF teamM # <<>> THEN add(s2, teamM[1], "Team Size") ELSE s2
        clientM == countMatch(t, ClientNouns)
        s4 == IF clientM # <<>> THEN add(s3, clientM[1] \o "+", "Clients") ELSE s3
        projM == countMatch(t, ProjectNouns)
        s5 == IF projM # <<>> THEN add(s4, projM[1], "Projects") ELSE s4
        mktM == countMatch(t, MarketNouns)
        s6 == IF mktM # <<>> THEN add(s5, mktM[1], "Markets") ELSE s5
    IN  s6.results

extractStats(t) ==
    LET s0 == [results |-> <<>>, seen |-> {}]
        s1 == addCurrencies(s0, t, currencyMatches(t))
        s2 == addPercents(s1, t, percentMatches(t))
        teamM == teamMatch(t)
        s3 == IF teamM # <<>> THEN add(s2, teamM[1], "Team Size") ELSE s2
        clientM == countMatch(t, ClientNouns)
        s4 == IF clientM # <<>> THEN add(s3, clientM[1] \o "+", "Clients") ELSE s3
        projM == countMatch(t, ProjectNouns)
        s5 == IF projM # <<>> THEN add(s4, projM[1], "Projects") ELSE s4
        mktM == countMatch(t, MarketNouns)
        s6 == IF mktM # <<>> THEN add(s5, mktM[1] \o "+", "Markets") ELSE s5
    IN  s6.results

(***************************************************************************)
(* Inputs of parseAbout: every text of at most MaxAboutLen characters over *)
(* AboutAlphabet, and the sample texts.                                    *)
(***************************************************************************)
AboutAlphabet == {"a", ".", " ", "\t", "\n", BULLET, MIDDOT}

RECURSIVE TextsOfLen(_, _)
TextsOfLen(alphabet, n) ==
    IF n = 0 THEN {""}
    ELSE {s \o c : s \in TextsOfLen(alphabet, n - 1), c \in alphabet}

TextsUpTo(alphabet, n) == UNION {TextsOfLen(alphabet, k) : k \in 0..n}

RECURSIVE Repeat(_, _)
Repeat(s, n) ==
    IF n = 0 THEN ""
    ELSE IF n = 1 THEN s
    ELSE Repeat(s, n \div 2) \o Repeat(s, n - (n \div 2))

HelloWorld == "Hello\n\nWorld"

LeadEngineerClosing ==
    "Over the past decade I have led many teams across multiple continents, delivering consistent results for stakeholders."

LeadEngineer ==
    "Lead engineer. * Built systems. * Shipped X. * " \o LeadEngineerClosing

AboutSamples ==
    { HelloWorld,
      LeadEngineer,
      "One\n\nTwo\n\n\nThree",
      "  One\nmore \n\n Two\t",
      "Intro * First * I did this. Then that. Done",
      "Intro ~ First ~ I did this. Then that. Done",
      "Intro ~ I did this. Then that. Done * ",
      "* I did this.\nThen that.\tDone",
      "* " \o Repeat("a", ClosingMinLength),
      "Intro * one ~ " \o Repeat("a", ClosingMinLength + 1) }

AboutInputs == TextsUpTo(AboutAlphabet, MaxAboutLen) \cup AboutSamples

NoSegments == [intro |-> "", highlights |-> <<>>, closing |-> ""]

NoCV == [about |-> "", headline |-> "", experience |-> <<>>, personalInfo |-> "",
         skills |-> <<>>, certifications |-> <<>>]

InitAbout ==
    /\ pc = "ready"
    /\ about \in AboutInputs
    /\ segments = NoSegments
    /\ cv = NoCV
    /\ traits = <<>>
    /\ desc = ""
    /\ stats = <<>>
    /\ HomeInitial

\* CVPage: const parsed = cv.about ? parseAbout(cv.about) : null  (and direct calls)
ParseAbout ==
    /\ pc = "ready"
    /\ segments' = parseAbout(about)
    /\ pc' = "done"
    /\ UNCHANGED <<about, cv, traits, desc, stats, homeVars>>

NextAbout == ParseAbout

SpecAbout == InitAbout /\ [][NextAbout]_vars

(***************************************************************************)
(* Inputs of deriveTraits: profile records built from the sample texts,    *)
(* with at most MaxRoles roles, and the sample profiles.                   *)
(***************************************************************************)
MaxRoles == 4

TraitAbouts ==
    { "",
      "Passionate about strategy and teams.",
      "Driven by vision: a roadmap for growth, for the team and for every client.",
      "Software architect and startup founder; data research, one course, 2x output.",
      "I adapt. I run, coach and design a global solution." }

TraitHeadlines == {"", "Executive Partner"}

TraitRoles ==
    { [title |-> "Senior Manager", description |-> "Grew sales by 35% in a year"],
      [title |-> "Head of Strategy", description |-> ""] }

TraitPersonalInfos == {"", "Committed marathon runner"}

SkillCounts == {0, SkillsThreshold - 1, SkillsThreshold}

CertificationCounts == {0, CertificationsThreshold}

RECURSIVE SeqsOfLen(_, _)
SeqsOfLen(S, n) ==
    IF n = 0 THEN {<<>>}
    ELSE {Append(q, x) : q \in SeqsOfLen(S, n - 1), x \in S}

SeqsUpTo(S, n) == UNION {SeqsOfLen(S, k) : k \in 0..n}

TraitInputs ==
    [ about : TraitAbouts,
      headline : TraitHeadlines,
      experience : SeqsUpTo(TraitRoles, MaxRoles),
      personalInfo : TraitPersonalInfos,
      skills : {[k \in 1..n |-> "Skill"] : n \in SkillCounts},
      certifications : {[k \in 1..n |-> [name |-> "Certificate"]] : n \in CertificationCounts} ]

\* profiles on which no rule, or a single rule, matches
TraitSamples ==
    {[NoCV EXCEPT !.about = a] :
        a \in {"I adapt.", "Our team", "I adapt with the team", "Highly motivated",
               "Resilient and driven team player"}}

\* roles whose texts meet at the joints of allText
ReorderRoles ==
    { [title |-> "Analyst", description |-> "Worked at Kings Cross"],
      [title |-> "Border Officer", description |-> "Checked documents"] }

ReorderInputs == {[NoCV EXCEPT !.experience = q] : q \in SeqsUpTo(ReorderRoles, MaxRoles)}

\* profiles whose only strategy vocabulary is a word that begins with "strateg"
StrategySamples ==
    {[NoCV EXCEPT !.experience = <<[title |-> t, description |-> ""]>>] :
        t \in {"Strategy Analyst", "STRATEGIC Planner", "Strategist"}}
    \cup {[NoCV EXCEPT !.about = "I set the strategy for the firm"]}

InitTraits ==
    /\ pc = "ready"
    /\ about = ""
    /\ segments = NoSegments
    /\ cv \in TraitInputs \cup TraitSamples \cup ReorderInputs \cup StrategySamples
    /\ traits = <<>>
    /\ desc = ""
    /\ stats = <<>>
    /\ HomeInitial

\* CVPage: const traits = deriveTraits(cv)
DeriveTraits ==
    /\ pc = "ready"
    /\ traits' = deriveTraits(cv)
    /\ pc' = "done"
    /\ UNCHANGED <<about, segments, cv, desc, stats, homeVars>>

NextTraits == DeriveTraits

SpecTraits == InitTraits /\ [][NextTraits]_vars

(***************************************************************************)
(* Inputs of extractStats: the descriptions made of at most MaxFragments   *)
(* of the sample fragments, joined by a space, and the sample descriptions.*)
(***************************************************************************)
MaxFragments == 3

GrewRevenue == "We grew revenue by 35% and led a team of 12 people."

StatFragments ==
    { GrewRevenue,
      "Saved $2M and #1.5k on a $2m budget;",
      "cut costs 20%, churn 3.5%",
      "team of 7",
      "40+ client in 12 market",
      "12 project for 12+ customer",
      "Managed 7 engineers across 7 region",
      "No figures here." }

StatSamples ==
    { "In 2019 the office moved 3 times.",
      "Led a team of engineers.",
      "Cut churn by 5% before we saved $3M, then #2k",
      "We saved little, and in the end we closed on $5M",
      "Signed a $4M deal on a budget with sales funding",
      "Won #3B contract under budget",
      "Kept a ^7k budget",
      "Funding of $9M",
      "Sales up; yet in the last quarter margin was 8%",
      "Sales were flat for a long time, many quarters on end; cut 8%",
      "Efficiency up 7%; later on, after a long and quiet stretch, conversion 6%",
      "Retention at 91% on a budget that grew 4%",
      "Joined a TEAM OF 1234, later a team of 5",
      "Expanded into 5 countries",
      "Opened 3 offices in 12 markets",
      "Ran 2 sites and 6 region" }

StatInputs == {join(q, " ") : q \in SeqsUpTo(StatFragments, MaxFragments)} \cup StatSamples

InitStats ==
    /\ pc = "ready"
    /\ about = ""
    /\ segments = NoSegments
    /\ cv = NoCV
    /\ traits = <<>>
    /\ desc \in StatInputs
    /\ stats = <<>>
    /\ HomeInitial

\* CVPage: const s = extractStats(exp.description)
ExtractStats ==
    /\ pc = "ready"
    /\ stats' = extractStats(desc)
    /\ pc' = "done"
    /\ UNCHANGED <<about, segments, cv, traits, desc, homeVars>>

NextStats == ExtractStats

SpecStats == InitStats /\ [][NextStats]_vars

(***************************************************************************)
(* JSON values.  An object is a function from the keys that are present;   *)
(* a key whose value is undefined is left out, as JSON.stringify leaves it *)
(* out and as every read of it gives undefined either way.  An array is a  *)
(* sequence, and an array field that is null is left out as well.  An      *)
(* object that is null is Null.                                            *)
(***************************************************************************)
EmptyObject == <<>>

\* o.k is neither undefined nor (for o itself) a read of null
has(o, k) == o # Null /\ k \in DOMAIN o

\* o.k || "" for a string field
orEmpty(o, k) == IF has(o, k) THEN o[k] ELSE ""

\* o.k || [] for an array field
orNoItems(o, k) == IF has(o, k) THEN o[k] ELSE <<>>

\* { ...o, k: v }
put(o, k, v) == [x \in DOMAIN o \cup {k} |-> IF x = k THEN v ELSE o[x]]

\* { ...o, k: v || undefined } for a string v
putIfAny(o, k, v) == IF v = "" THEN [x \in DOMAIN o \ {k} |-> o[x]] ELSE put(o, k, v)

\* NextResponse.json(body, { status })
response(status, body) == [status |-> status, json |-> body]

\* NextResponse.json({ error: message }, { status })
errorResponse(message, status) == response(status, [error |-> message])

\* Response.ok
ok(res) == res.status >= 200 /\ res.status <= 299

(***************************************************************************)
(* The profile-lookup route, POST /api/scrape (src/unnamed/part_001).      *)
(* The en dash U+2013 of formatDateRange is written "--".                  *)
(***************************************************************************)
Months == <<"Jan", "Feb", "Mar", "Apr", "May", "Jun", "Jul", "Aug", "Sep", "Oct", "Nov", "Dec">>

\* formatDateRange.fmt: "" stands for null
fmt(d) ==
    IF ~has(d, "year") \/ d.year = 0 THEN ""
    ELSE IF ~has(d, "month") \/ d.month = 0 THEN ToString(d.year)
    ELSE Months[((d.month - 1) % 12) + 1] \o " " \o ToString(d.year)

formatDateRange(start, end) ==
    LET s == fmt(start)
        e == IF fmt(end) = "" THEN "Present" ELSE fmt(end)
    IN  IF s = "" THEN "" ELSE s \o " -- " \o e

\* e.starts_at, e.ends_at: Null when the key is missing
dateOf(e, k) == IF has(e, k) THEN e[k] ELSE Null

\* the callback of (p.experiences || []).map
mapExperience(e) ==
    putIfAny(putIfAny([title |-> orEmpty(e, "title"),
                       company |-> orEmpty(e, "company"),
                       duration |-> formatDateRange(dateOf(e, "starts_at"), dateOf(e, "ends_at"))],
                      "location", orEmpty(e, "location")),
             "description", orEmpty(e, "description"))

\* the callback of (p.education || []).map
mapEducation(e) ==
    putIfAny([degree |-> IF orEmpty(e, "degree_name") = "" THEN "Degree" ELSE e.degree_name,
              school |-> orEmpty(e, "school"),
              years |-> formatDateRange(dateOf(e, "starts_at"), dateOf(e, "ends_at"))],
             "field", orEmpty(e, "field_of_study"))

\* the callback of (p.certifications || []).map
mapCertification(c) ==
    putIfAny(putIfAny([name |-> orEmpty(c, "name")], "issuer", orEmpty(c, "authority")),
             "date", IF dateOf(c, "starts_at") = Null THEN ""
                     ELSE IF has(c.starts_at, "year") THEN ToString(c.starts_at.year)
                     ELSE "undefined")

\* [a, b, ...].filter(Boolean).join(sep)
joinTruthy(parts, sep) == join(SelectSeq(parts, LAMBDA x : x # ""), sep)

\* x?.[0] of an array of strings, "" if there is none
firstOrEmpty(q) == IF q = <<>> THEN "" ELSE q[1]

\* the object literal assigned to cv (lines 46-77); skill items are strings
mapProfile(p, target) ==
    LET name == joinTruthy(<<orEmpty(p, "first_name"), orEmpty(p, "last_name")>>, " ")
        headline == IF orEmpty(p, "headline") # "" THEN p.headline ELSE orEmpty(p, "occupation")
        location == joinTruthy(<<orEmpty(p, "city"), orEmpty(p, "state"),
                                 orEmpty(p, "country_full_name")>>, ", ")
        email == IF firstOrEmpty(orNoItems(p, "personal_emails")) # ""
                 THEN p.personal_emails[1] ELSE orEmpty(p, "work_email")
        website == IF orNoItems(p, "personal_websites") # <<>>
                   THEN orEmpty(p.personal_websites[1], "url") ELSE ""
        contact == putIfAny(putIfAny([linkedin |-> target], "email", email), "website", website)
        experiences == orNoItems(p, "experiences")
        education == orNoItems(p, "education")
        certifications == orNoItems(p, "certifications")
        base == [name |-> IF name = "" THEN "Unknown" ELSE name,
                 headline |-> headline,
                 contact |-> contact,
                 experience |-> [i \in 1..Len(experiences) |-> mapExperience(experiences[i])],
                 education |-> [i \in 1..Len(education) |-> mapEducation(education[i])],
                 skills |-> SelectSeq(orNoItems(p, "skills"), LAMBDA x : x # ""),
                 certifications |->
                     [i \in 1..Len(certifications) |-> mapCertification(certifications[i])]]
    IN  putIfAny(putIfAny(base, "location", location), "about", orEmpty(p, "summary"))

LinkedInPrefix == "https://www.linkedin.com/in/"

\* the URL the route looks up: trimmed, a bare username made into a profile URL
normaliseUrl(linkedinUrl) ==
    LET u == trim(linkedinUrl)
    IN  IF startsWithAt(u, 1, "http") THEN u
        ELSE LinkedInPrefix \o (IF startsWithAt(u, 1, "/") THEN SubSeq(u, 2, Len(u)) ELSE u)

\* POST of the scrape route for the body { linkedinUrl }; env is what the
\* server's environment and Proxycurl do: apiKey (is PROXYCURL_API_KEY set),
\* status (of the Proxycurl response, 0 when the fetch rejects), detail (of an
\* error body) and p (the JSON of a 200 response)
scrapePOST(linkedinUrl, env) ==
    IF linkedinUrl = ""
    THEN errorResponse("A LinkedIn URL is required.", 400)
    ELSE IF ~contains(normaliseUrl(linkedinUrl), "linkedin.com/in/")
    THEN errorResponse("Please enter a valid LinkedIn profile URL (linkedin.com/in/username).", 400)
    ELSE IF ~env.apiKey
    THEN errorResponse("Proxycurl API key not configured on server.", 500)
    ELSE IF env.status = 0
    THEN errorResponse("fetch failed", 500)
    ELSE IF env.status = 404
    THEN errorResponse("LinkedIn profile not found or is private.", 404)
    ELSE IF env.status = 401
    THEN errorResponse("Invalid Proxycurl API key.", 500)
    ELSE IF env.status < 200 \/ env.status > 299
    THEN errorResponse(IF env.detail # "" THEN env.detail ELSE "Failed to fetch LinkedIn profile.",
                       500)
    ELSE IF env.p = Null
    THEN errorResponse("Cannot read properties of null (reading 'first_name')", 500)
    ELSE response(200, [data |-> mapProfile(env.p, normaliseUrl(linkedinUrl))])

(***************************************************************************)
(* The language-model parse route, POST /api/parse (src/unnamed/part_001). *)
(***************************************************************************)
ParseMinLength == 50

\* POST of the parse route for the body { linkedinText }; env is what the
\* language-model client does: throws (the message of the Error that
\* client.messages.create rejects with, "" if it resolves), type (of the first
\* content block), valid (does JSON.parse accept content.text) and parsed (the
\* value JSON.parse returns)
parsePOST(linkedinText, env) ==
    IF linkedinText = "" \/ Len(trim(linkedinText)) < ParseMinLength
    THEN errorResponse("Please paste more LinkedIn profile text.", 400)
    ELSE IF env.throws # ""
    THEN errorResponse(env.throws, 500)
    ELSE IF env.type # "text"
    THEN errorResponse("Unexpected response type from Claude", 500)
    ELSE IF ~env.valid
    THEN errorResponse("Could not parse the profile -- try copying more of your LinkedIn page.",
                       500)
    ELSE response(200, [data |-> env.parsed])

(***************************************************************************)
(* Home (src/src/app/page.tsx, lines 719-955).                             *)
(***************************************************************************)
\* const canSubmit = ...
canSubmit == IF mode = "url" THEN Len(trim(url)) > 0 ELSE Len(trim(profileText)) > 0

\* the form is what Home renders: neither the spinner nor CVPage
FormShown == state # "loading" /\ ~(state = "result" /\ cv # Null)

\* CVPage is what Home renders
PageShown == state = "result" /\ cv # Null

\* the two tab buttons
SetMode(m) ==
    /\ FormShown
    /\ mode' = m
    /\ UNCHANGED <<state, url, profileText, photoUrl, photoPreview, personalInfo, showPersonal,
                   cv, error, request, reader>>
    /\ UNCHANGED coreVars

\* onChange of the URL input, rendered in url mode
SetUrl(v) ==
    /\ FormShown /\ mode = "url"
    /\ url' = v
    /\ UNCHANGED <<state, mode, profileText, photoUrl, photoPreview, personalInfo, showPersonal,
                   cv, error, request, reader>>
    /\ UNCHANGED coreVars

\* onChange of the profile textarea, rendered in paste mode
SetText(v) ==
    /\ FormShown /\ mode = "paste"
    /\ profileText' = v
    /\ UNCHANGED <<state, mode, url, photoUrl, photoPreview, personalInfo, showPersonal,
                   cv, error, request, reader>>
    /\ UNCHANGED coreVars

\* the Remove button, rendered in paste mode when there is a preview
RemovePhoto ==
    /\ FormShown /\ mode = "paste" /\ photoPreview # ""
    /\ photoPreview' = ""
    /\ photoUrl' = ""
    /\ UNCHANGED <<state, mode, url, profileText, personalInfo, showPersonal,
                   cv, error, request, reader>>
    /\ UNCHANGED coreVars

\* the "Add personal details" button
ToggleShowPersonal ==
    /\ FormShown
    /\ showPersonal' = ~showPersonal
    /\ UNCHANGED <<state, mode, url, profileText, photoUrl, photoPreview, personalInfo,
                   cv, error, request, reader>>
    /\ UNCHANGED coreVars

\* onChange of the personal-details textarea, rendered when showPersonal
SetPersonalInfo(v) ==
    /\ FormShown /\ showPersonal
    /\ personalInfo' = v
    /\ UNCHANGED <<state, mode, url, profileText, photoUrl, photoPreview, showPersonal,
                   cv, error, request, reader>>
    /\ UNCHANGED coreVars

\* handlePaste, registered by the effect while state is "idle": an image item
\* starts a FileReader on the file
HandlePaste(file) ==
    /\ state = "idle"
    /\ reader' = reader \cup {file}
    /\ UNCHANGED <<state, mode, url, profileText, photoUrl, photoPreview, personalInfo,
                   showPersonal, cv, error, request>>
    /\ UNCHANGED coreVars

\* reader.onload of a pending FileReader
ReaderOnLoad ==
    \E dataUrl \in reader :
        /\ photoPreview' = dataUrl
        /\ photoUrl' = dataUrl
        /\ reader' = reader \ {dataUrl}
        /\ UNCHANGED <<state, mode, url, profileText, personalInfo, showPersonal,
                       cv, error, request>>
        /\ UNCHANGED coreVars

\* handleGenerate without its setError(null)
handleGenerate_KeepsError ==
    /\ state' = "loading"
    /\ request' =
           IF mode = "url"
           THEN IF trim(url) = "" THEN None
                ELSE [route |-> "/api/scrape", body |-> url,
                      photoUrl |-> photoUrl, personalInfo |-> personalInfo]
           ELSE IF trim(profileText) = "" THEN None
                ELSE [route |-> "/api/parse", body |-> profileText,
                      photoUrl |-> photoUrl, personalInfo |-> personalInfo]
    /\ UNCHANGED <<mode, url, profileText, photoUrl, photoPreview, personalInfo, showPersonal,
                   cv, error, reader>>
    /\ UNCHANGED coreVars

\* the body of handleGenerate up to its first await: the request it sends, with
\* the photoUrl and personalInfo its closure holds, or None after the early return
handleGenerate ==
    /\ state' = "loading"
    /\ error' = Null
    /\ request' =
           IF mode = "url"
           THEN IF trim(url) = "" THEN None
                ELSE [route |-> "/api/scrape", body |-> url,
                      photoUrl |-> photoUrl, personalInfo |-> personalInfo]
           ELSE IF trim(profileText) = "" THEN None
                ELSE [route |-> "/api/parse", body |-> profileText,
                      photoUrl |-> photoUrl, personalInfo |-> personalInfo]
    /\ UNCHANGED <<mode, url, profileText, photoUrl, photoPreview, personalInfo, showPersonal,
                   cv, reader>>
    /\ UNCHANGED coreVars

\* handleGenerate wired to controls that do not look at canSubmit
HandleGenerate_Unguarded ==
    /\ FormShown
    /\ handleGenerate

\* the Generate button (disabled unless canSubmit) and the Enter key of the URL
\* input (canSubmit && handleGenerate())
HandleGenerate ==
    /\ FormShown /\ canSubmit
    /\ handleGenerate

\* a catch block that also clears what the user typed
catch_ClearsInputs(message) ==
    /\ error' = [message |-> message]
    /\ state' = "idle"
    /\ request' = None
    /\ url' = ""
    /\ profileText' = ""
    /\ UNCHANGED <<mode, photoUrl, photoPreview, personalInfo, showPersonal, cv, reader>>
    /\ UNCHANGED coreVars

\* the catch block of handleGenerate
catch(message) ==
    /\ error' = [message |-> message]
    /\ state' = "idle"
    /\ request' = None
    /\ UNCHANGED <<mode, url, profileText, photoUrl, photoPreview, personalInfo, showPersonal,
                   cv, reader>>
    /\ UNCHANGED coreVars

\* const data = { ...json.data, photoUrl: ..., personalInfo: ... }
mergeData(data, req) ==
    putIfAny(putIfAny(data, "photoUrl",
                      IF orEmpty(data, "photoUrl") # "" THEN data.photoUrl
                      ELSE trim(req.photoUrl)),
             "personalInfo", trim(req.personalInfo))

\* handleGenerate after res = await fetch(...) resolved with res
resume(res) ==
    IF ~ok(res) \/ orEmpty(res.json, "error") # ""
    THEN catch(IF orEmpty(res.json, "error") # "" THEN res.json.error
               ELSE "Failed to generate CV.")
    ELSE IF ~has(res.json, "data")
    THEN catch("Cannot read properties of undefined (reading 'photoUrl')")
    ELSE IF res.json.data = Null
    THEN catch("Cannot read properties of null (reading 'photoUrl')")
    ELSE /\ cv' = mergeData(res.json.data, request)
         /\ state' = "result"
         /\ request' = None
         /\ UNCHANGED <<mode, url, profileText, photoUrl, photoPreview, personalInfo,
                        showPersonal, error, reader>>
         /\ UNCHANGED coreVars

\* the scrape route answers the awaited fetch
SettleScrape(env) ==
    /\ request # None /\ request.route = "/api/scrape"
    /\ resume(scrapePOST(request.body, env))

\* the parse route answers the awaited fetch
SettleParse(env) ==
    /\ request # None /\ request.route = "/api/parse"
    /\ resume(parsePOST(request.body, env))

\* the awaited fetch, or res.json(), rejects
FetchRejects(message) ==
    /\ request # None
    /\ catch(message)

\* handleReset that also goes back to the first tab
handleReset_ResetsMode ==
    /\ state' = "idle"
    /\ mode' = "url"
    /\ url' = ""
    /\ profileText' = ""
    /\ photoUrl' = ""
    /\ photoPreview' = ""
    /\ personalInfo' = ""
    /\ showPersonal' = FALSE
    /\ cv' = Null
    /\ error' = Null
    /\ UNCHANGED <<request, reader>>
    /\ UNCHANGED coreVars

handleReset ==
    /\ state' = "idle"
    /\ url' = ""
    /\ profileText' = ""
    /\ photoUrl' = ""
    /\ photoPreview' = ""
    /\ personalInfo' = ""
    /\ showPersonal' = FALSE
    /\ cv' = Null
    /\ error' = Null
    /\ UNCHANGED <<mode, request, reader>>
    /\ UNCHANGED coreVars

\* the "Generate your own" button of CVPage (onReset)
HandleReset ==
    /\ PageShown
    /\ handleReset

(***************************************************************************)
(* Inputs of Home: what the user types and pastes, and what the services   *)
(* behind the two routes answer.                                           *)
(***************************************************************************)
UrlInputs == {"", " ", "ada", "http://example.com/ada"}

ShortProfileText == "Ada Lovelace"

LongProfileText == "Ada Lovelace, engineer at Analytical Engines, London, since 1843"

TextInputs == {"", " ", ShortProfileText, LongProfileText}

PersonalInputs == {"", " ", "I run marathons"}

PastedImages == {"data:image/png;base64,AAAA"}

FullProfile ==
    [ first_name |-> "Ada", last_name |-> "Lovelace", occupation |-> "Engineer",
      summary |-> "Notes on the engine.", city |-> "London",
      experiences |-> <<[title |-> "Engineer", company |-> "Analytical Engines",
                         starts_at |-> [year |-> 1843, month |-> 2], ends_at |-> Null]>>,
      education |-> <<[school |-> "Home", starts_at |-> [year |-> 1832],
                       ends_at |-> [year |-> 1835, month |-> 12]]>>,
      skills |-> <<"Mathematics", "">>,
      certifications |-> <<[name |-> "Translator", starts_at |-> [year |-> 1842]]>> ]

ProxycurlProfiles == {Null, EmptyObject, FullProfile}

ScrapeEnvs ==
    {[apiKey |-> FALSE, status |-> 200, detail |-> "", p |-> EmptyObject]}
        \cup {[apiKey |-> TRUE, status |-> s, detail |-> d, p |-> EmptyObject] :
                 s \in {0, 401, 404}, d \in {""}}
        \cup {[apiKey |-> TRUE, status |-> 429, detail |-> d, p |-> EmptyObject] :
                 d \in {"", "Rate limit exceeded"}}
        \cup {[apiKey |-> TRUE, status |-> 200, detail |-> "", p |-> p] : p \in ProxycurlProfiles}

NameOnly == [name |-> "Ada Lovelace", headline |-> "Engineer"]

FullParsed ==
    [ name |-> "Ada Lovelace", headline |-> "Engineer",
      experience |-> <<[title |-> "Engineer", company |-> "Analytical Engines",
                        duration |-> "1843 -- Present"]>>,
      education |-> <<>>, skills |-> <<"Mathematics">> ]

\* what JSON.parse can return for the text the language model writes
ParsedValues ==
    { Null, EmptyObject, NameOnly, FullParsed,
      [k \in DOMAIN FullParsed \ {"skills"} |-> FullParsed[k]],
      put(FullParsed, "photoUrl", "https://example.com/ada.png") }

ParseEnvs ==
    {[throws |-> "Connection error.", type |-> "text", valid |-> TRUE, parsed |-> Null],
     [throws |-> "", type |-> "tool_use", valid |-> TRUE, parsed |-> Null],
     [throws |-> "", type |-> "text", valid |-> FALSE, parsed |-> Null]}
        \cup {[throws |-> "", type |-> "text", valid |-> TRUE, parsed |-> v] : v \in ParsedValues}

RejectMessages == {"Failed to fetch"}

InitHome ==
    /\ pc = "ready"
    /\ about = ""
    /\ segments = NoSegments
    /\ cv = Null
    /\ traits = <<>>
    /\ desc = ""
    /\ stats = <<>>
    /\ HomeInitial

NextHome ==
    \/ \E m \in {"url", "paste"} : SetMode(m)
    \/ \E v \in UrlInputs : SetUrl(v)
    \/ \E v \in TextInputs : SetText(v)
    \/ RemovePhoto
    \/ ToggleShowPersonal
    \/ \E v \in PersonalInputs : SetPersonalInfo(v)
    \/ \E file \in PastedImages : HandlePaste(file)
    \/ ReaderOnLoad
    \/ HandleGenerate
    \/ \E env \in ScrapeEnvs : SettleScrape(env)
    \/ \E env \in ParseEnvs : SettleParse(env)
    \/ \E message \in RejectMessages : FetchRejects(message)
    \/ HandleReset

SpecHome == InitHome /\ [][NextHome]_vars

\* the awaited fetch of handleGenerate settles: a route answers or it rejects
Settle ==
    \/ \E env \in ScrapeEnvs : SettleScrape(env)
    \/ \E env \in ParseEnvs : SettleParse(env)
    \/ \E message \in RejectMessages : FetchRejects(message)

\* Home when every request that was sent is answered or rejected in the end
SpecHomeFair == SpecHome /\ WF_vars(Settle)

(***************************************************************************)
(* Vocabulary of the claims about parseAbout, stated on the text itself.   *)
(***************************************************************************)
\* the text with every whitespace character and bullet glyph deleted
RECURSIVE Content(_)
Content(s) ==
    IF s = "" THEN ""
    ELSE IF Len(s) = 1 THEN (IF IsSpace(s) \/ IsGlyph(s) THEN "" ELSE s)
    ELSE LET half == Len(s) \div 2
         IN  Content(SubSeq(s, 1, half)) \o Content(SubSeq(s, half + 1, Len(s)))

IsBlank(s) == \A i \in 1..Len(s) : IsSpace(Char(s, i))

HasBlankLine(s) == \E i \in 1..(Len(s) - 1) : Char(s, i) = "\n" /\ Char(s, i + 1) = "\n"

GlyphPositions(s) == {i \in 1..Len(s) : IsGlyph(Char(s, i))}

\* the text before the earliest occurrence of either glyph, trimmed
PrefixBeforeEarliestGlyph(s) == trim(SubSeq(s, 1, Min(GlyphPositions(s)) - 1))

\* one chunk per glyph occurrence at or after position from, each running to the
\* next glyph of either kind or to the end, trimmed, the empty ones dropped
RECURSIVE ChunksFrom(_, _)
ChunksFrom(s, from) ==
    LET gs == {g \in GlyphPositions(s) : g >= from}
    IN  IF gs = {} THEN <<>>
        ELSE LET g == Min(gs)
                 later == {h \in gs : h > g}
                 e == IF later = {} THEN Len(s) ELSE Min(later) - 1
                 chunk == trim(SubSeq(s, g + 1, e))
             IN  (IF chunk = "" THEN <<>> ELSE <<chunk>>) \o ChunksFrom(s, e + 1)

GlyphChunks(s) == ChunksFrom(s, 1)

IsProse(chunk) ==
    \/ Cardinality({i \in 1..(Len(chunk) - 1) :
                        Char(chunk, i) = "." /\ IsSpace(Char(chunk, i + 1))}) >= 2
    \/ Len(chunk) > 150

Front(q) == SubSeq(q, 1, Len(q) - 1)

Last(q) == q[Len(q)]

\* C4: when the text holds a bullet glyph, the intro is the trimmed text before
\* the earliest occurrence of either glyph, so the intro holds no glyph.
C4_IntroBeforeEarliestGlyph ==
    (pc = "done" /\ hasBullets(about)) =>
        /\ segments.intro = PrefixBeforeEarliestGlyph(about)
        /\ ~hasBullets(segments.intro)

\* C5 as claimed: for the Lead-engineer text the last bullet becomes the closing
\* and the highlights are exactly the first two bullets.
C5_LastBulletIsClosing ==
    (pc = "done" /\ about = LeadEngineer) =>
        /\ segments.closing = LeadEngineerClosing
        /\ segments.highlights = <<"Built systems.", "Shipped X.">>

\* C5 amended: for the Lead-engineer text the last bullet (118 characters, no
\* full stop followed by whitespace) stays a highlight: the highlights are all
\* three bullets and the closing is empty.
C5_LastBulletStaysHighlight ==
    (pc = "done" /\ about = LeadEngineer) =>
        /\ segments.intro = "Lead engineer."
        /\ segments.highlights = <<"Built systems.", "Shipped X.", LeadEngineerClosing>>
        /\ segments.closing = ""

C5_Witness ==
    pc = "done" /\ about = LeadEngineer /\ Len(segments.highlights) = 3

\* C6 as claimed: the empty text and every whitespace-only text give an empty
\* intro, no highlights and an empty closing.
C6_BlankGivesAllEmpty ==
    (pc = "done" /\ IsBlank(about)) => segments = NoSegments

\* C6 amended: the empty text gives all-empty segments; a whitespace-only text
\* gives no highlights and an empty closing, and its intro is the text itself.
C6_BlankGivesTextAsIntro ==
    (pc = "done" /\ IsBlank(about)) =>
        segments = [intro |-> about, highlights |-> <<>>, closing |-> ""]

C6_Witness ==
    pc = "done" /\ about # "" /\ IsBlank(about) /\ segments.intro = about

\* C7 as claimed: a text with no glyph and no blank line is returned as the
\* intro character for character.
C7_IntroIsFullText ==
    (pc = "done" /\ ~hasBullets(about) /\ ~HasBlankLine(about)) =>
        segments = [intro |-> about, highlights |-> <<>>, closing |-> ""]

\* C7 amended: a text with no glyph and no blank line gives no highlights, an
\* empty closing, and as intro the text without its leading and trailing
\* whitespace (the text itself when it is empty or whitespace-only).
C7_IntroIsTrimmedText ==
    (pc = "done" /\ ~hasBullets(about) /\ ~HasBlankLine(about)) =>
        /\ segments.intro = (IF IsBlank(about) THEN about ELSE trim(about))
        /\ segments.highlights = <<>>
        /\ segments.closing = ""

C7_Witness ==
    /\ pc = "done" /\ ~hasBullets(about) /\ ~HasBlankLine(about)
    /\ ~IsBlank(about) /\ trim(about) # about
    /\ segments.intro = trim(about)

\* C8: a text without glyphs that splits into n >= 2 paragraphs gives the first
\* n-1 paragraphs joined by a blank line as intro, the n-th as closing and no
\* highlights; Hello/World gives intro Hello and closing World; one paragraph
\* gives an empty closing.
C8_ParagraphsSplitIntoIntroAndClosing ==
    (pc = "done" /\ ~hasBullets(about)) =>
        LET paras == splitParas(about)
        IN  /\ segments.highlights = <<>>
            /\ Len(paras) >= 2 =>
                   /\ segments.intro = join(Front(paras), "\n\n")
                   /\ segments.closing = Last(paras)
            /\ Len(paras) = 1 => segments.closing = ""
            /\ about = HelloWorld =>
                   segments = [intro |-> "Hello", highlights |-> <<>>, closing |-> "World"]

C8_Witness ==
    /\ pc = "done" /\ ~hasBullets(about)
    /\ Len(splitParas(about)) >= 3
    /\ segments.closing = "Three"

\* C9: with bullets, the closing is non-empty exactly when the last non-empty
\* bullet chunk holds two or more full stops followed by whitespace or is longer
\* than 150 characters; then the closing is that chunk and the highlights are
\* the other chunks in order; otherwise the highlights are all the chunks and
\* the closing is empty.
C9_ClosingIffLastChunkIsProse ==
    (pc = "done" /\ hasBullets(about)) =>
        LET chunks == GlyphChunks(about)
        IN  IF chunks # <<>> /\ IsProse(Last(chunks))
            THEN segments.closing = Last(chunks) /\ segments.highlights = Front(chunks)
            ELSE segments.closing = "" /\ segments.highlights = chunks

\* C10: deleting whitespace and glyphs from intro ++ highlights ++ closing gives
\* the same characters, in the same order, as deleting them from the text.
C10_NoContentLost ==
    pc = "done" =>
        Content(segments.intro \o join(segments.highlights, "") \o segments.closing)
            = Content(about)

C10_Witness ==
    /\ pc = "done" /\ hasBullets(about)
    /\ segments.intro # "" /\ segments.highlights # <<>> /\ segments.closing # ""

(***************************************************************************)
(* Claims about deriveTraits.                                              *)
(***************************************************************************)
\* the labels of the rules that match the profile, in table order
MatchedLabels(c) == pushMatching(ruleTable(c))

\* C2: the list returned by deriveTraits always contains "Driven", also when
\* eight or more other rules match.
C2_AlwaysContainsDriven ==
    pc = "done" => \E k \in 1..Len(traits) : traits[k] = "Driven"

\* C3: deriveTraits returns at least 1 and at most 8 labels.
C3_BetweenOneAndEightLabels ==
    pc = "done" => (Len(traits) >= 1 /\ Len(traits) <= 8)

C3_Witness ==
    pc = "done" /\ Len(MatchedLabels(cv)) > 8 /\ Len(traits) = 8

FallbackLabels == {"Driven", "Resilient", "Team Player"}

\* the labels the fallback appends to the matched labels m, from the counts alone
ForcedLabels(m) ==
    LET d == ~includes(m, "Driven")
        n1 == Len(m) + (IF d THEN 1 ELSE 0)
        r == n1 < 3 /\ ~includes(m, "Resilient")
        n2 == n1 + (IF r THEN 1 ELSE 0)
        p == n2 < 4 /\ ~includes(m, "Team Player")
    IN  (IF d THEN <<"Driven">> ELSE <<>>) \o (IF r THEN <<"Resilient">> ELSE <<>>)
            \o (IF p THEN <<"Team Player">> ELSE <<>>)

FirstN(q, n) == SubSeq(q, 1, Min({Len(q), n}))

\* the position of x in q, 0 if absent
PositionIn(q, x) == IF includes(q, x) THEN Min({k \in 1..Len(q) : q[k] = x}) ELSE 0

NoDuplicates(q) == \A i, j \in 1..Len(q) : i # j => q[i] # q[j]

IsFirstEightOfMatchedThenForced(m, result) ==
    /\ NoDuplicates(result)
    /\ result = FirstN(m \o ForcedLabels(m), 8)

\* C16 as stated: the result is the first 8 of the matched labels followed by the
\* forced ones, and a rule's label is in it exactly when the rule matched and
\* fewer than 8 labels precede it.
C16_LabelPresentIffRuleMatched ==
    pc = "done" =>
        LET table == ruleTable(cv)
            m == pushMatching(table)
        IN  /\ IsFirstEightOfMatchedThenForced(m, traits)
            /\ \A k \in 1..Len(table) :
                   includes(traits, table[k].label)
                       <=> table[k].matches /\ PositionIn(m, table[k].label) <= 8

\* C16: the result has no duplicate and is the first 8 of the matched labels in
\* table order followed by the forced fallback labels; a rule's label is in it
\* exactly when the rule matched or the fallback forced the label, and fewer than
\* 8 labels precede it.
C16_LabelPresentIffMatchedOrForced ==
    pc = "done" =>
        LET table == ruleTable(cv)
            m == pushMatching(table)
            forced == ForcedLabels(m)
        IN  /\ IsFirstEightOfMatchedThenForced(m, traits)
            /\ FirstN(traits, Len(m)) = FirstN(m, 8)
            /\ \A k \in 1..Len(table) :
                   includes(traits, table[k].label)
                       <=> \/ table[k].matches /\ PositionIn(m, table[k].label) <= 8
                           \/ /\ includes(forced, table[k].label)
                              /\ Len(m) + PositionIn(forced, table[k].label) <= 8

\* a forced label whose rule did not match, after labels of rules that matched
C16_Witness ==
    /\ pc = "done" /\ Len(MatchedLabels(cv)) >= 2
    /\ LET table == ruleTable(cv)
       IN  \E k \in 1..Len(table) : ~table[k].matches /\ includes(traits, table[k].label)

\* C17: after the matched labels come "Driven" if absent, then "Resilient" if
\* fewer than 3 labels exist and it is absent, then "Team Player" if fewer than 4
\* exist and it is absent; every result has at least 3 labels and a profile on
\* which no rule matches gives exactly Driven, Resilient, Team Player.
C17_FallbackGivesAtLeastThree ==
    pc = "done" =>
        LET m == MatchedLabels(cv)
        IN  /\ Len(traits) >= 3
            /\ m = <<>> => traits = <<"Driven", "Resilient", "Team Player">>
            /\ Len(m) + Len(ForcedLabels(m)) <= 8 =>
                   SubSeq(traits, Len(m) + 1, Len(traits)) = ForcedLabels(m)
            /\ \A x \in FallbackLabels :
                   (includes(traits, x) /\ ~includes(m, x)) => includes(ForcedLabels(m), x)

C17_Witness ==
    pc = "done" /\ MatchedLabels(cv) = <<>> /\ Len(traits) = 3

\* the role lists that hold the same roles as q in another or the same order
Reorderings(q) ==
    {[i \in 1..Len(q) |-> q[p[i]]] : p \in Permutations(1..Len(q))}

\* C18: deriveTraits returns the same list for every reordering of the profile's
\* experience entries, all other fields equal.
C18_SameTraitsForReorderedRoles ==
    pc = "done" =>
        \A q \in Reorderings(cv.experience) :
            deriveTraits([cv EXCEPT !.experience = q]) = traits

(***************************************************************************)
(* Claims about extractStats.                                              *)
(***************************************************************************)
\* the value strings of the currency and percentage figures of the description
FigureValues(t) ==
    {currencyValue(t, currencyMatches(t)[k]) : k \in 1..Len(currencyMatches(t))}
        \cup {percentValue(t, percentMatches(t)[k]) : k \in 1..Len(percentMatches(t))}

\* C1: extractStats returns at most 4 entries, and no two entries of the result
\* have the same value string, however many patterns match.
C1_AtMostFourDistinctValues ==
    pc = "done" =>
        /\ Len(stats) <= 4
        /\ \A i, j \in 1..Len(stats) : i # j => stats[i].value # stats[j].value

C1_Witness ==
    /\ pc = "done" /\ Len(stats) = 4
    /\ Cardinality(FigureValues(desc)) > 4
    /\ Len(currencyMatches(desc)) > Cardinality({currencyValue(desc, currencyMatches(desc)[k]) :
                                                    k \in 1..Len(currencyMatches(desc))})
    /\ teamMatch(desc) # <<>>

\* the labels given to currency figures and to percentage figures
CurrencyLabels == {"Savings", "Revenue", "Funding", "Contracts", "Budget", "Value"}

PercentLabels ==
    {"Revenue Growth", "Cost Reduction", "Efficiency Gain", "Retention", "Conversion",
     "Reduction", "Improvement"}

\* the priority of the pattern family that gives the label, 1 the highest
FamilyRank(label) ==
    IF label \in CurrencyLabels THEN 1
    ELSE IF label \in PercentLabels THEN 2
    ELSE IF label = "Team Size" THEN 3
    ELSE IF label = "Clients" THEN 4
    ELSE IF label = "Projects" THEN 5
    ELSE 6

\* what the count family of the given nouns finds in the description
CountFigures(t, nouns, plus, label) ==
    IF countMatch(t, nouns) = <<>> THEN <<>>
    ELSE <<[value |-> countMatch(t, nouns)[1] \o plus, label |-> label]>>

\* every figure found in the description, family by family in priority order
\* and in text order within the currency and the percentage families
FamilyFigures(t) ==
    [k \in 1..Len(currencyMatches(t)) |->
        [value |-> currencyValue(t, currencyMatches(t)[k]),
         label |-> currencyLabel(contextOf(t, currencyMatches(t)[k], CurrencyBefore))]]
    \o [k \in 1..Len(percentMatches(t)) |->
        [value |-> percentValue(t, percentMatches(t)[k]),
         label |-> percentLabel(contextOf(t, percentMatches(t)[k], PercentBefore))]]
    \o (IF teamMatch(t) = <<>> THEN <<>>
        ELSE <<[value |-> teamMatch(t)[1], label |-> "Team Size"]>>)
    \o CountFigures(t, ClientNouns, "+", "Clients")
    \o CountFigures(t, ProjectNouns, "", "Projects")
    \o CountFigures(t, MarketNouns, "+", "Markets")

Entries(s) == {s[k] : k \in 1..Len(s)}

ValuesBefore(figs, k) == {figs[h].value : h \in 1..(k - 1)}

\* C11: the entries of a result are in family priority order (currency, percentage,
\* Team Size, Clients, Projects, Markets), and a figure with a new value is in the
\* result exactly when fewer than 4 values were collected before it, by its own
\* family or by the families of higher priority.
C11_FamilyPriorityOrder ==
    pc = "done" =>
        /\ \A i, j \in 1..Len(stats) :
               i < j => FamilyRank(stats[i].label) <= FamilyRank(stats[j].label)
        /\ LET figs == FamilyFigures(desc)
           IN  \A k \in 1..Len(figs) :
                   figs[k].value \notin ValuesBefore(figs, k) =>
                       (figs[k] \in Entries(stats)
                            <=> Cardinality(ValuesBefore(figs, k)) < MaxStats)

C11_Witness ==
    /\ pc = "done" /\ Len(stats) = 4
    /\ {FamilyRank(stats[k].label) : k \in 1..Len(stats)} = {1, 2, 3}
    /\ countMatch(desc, ClientNouns) # <<>>
    /\ \A k \in 1..Len(stats) : stats[k].label # "Clients"

\* the position in the description of the first currency or percentage match that
\* gives the entry its value
FirstMatchOf(t, e) ==
    IF e.label \in CurrencyLabels
    THEN Min({currencyMatches(t)[k].first : k \in {h \in 1..Len(currencyMatches(t)) :
                 currencyValue(t, currencyMatches(t)[h]) = e.value}})
    ELSE Min({percentMatches(t)[k].first : k \in {h \in 1..Len(percentMatches(t)) :
                 percentValue(t, percentMatches(t)[h]) = e.value}})

IsFigureEntry(e) == e.label \in CurrencyLabels \cup PercentLabels

\* C12 as stated, for the currency and percentage entries: of two entries the one
\* whose figure first occurs earlier in the description is listed earlier.
C12_OrderMirrorsText ==
    pc = "done" =>
        \A i, j \in 1..Len(stats) :
            (i < j /\ IsFigureEntry(stats[i]) /\ IsFigureEntry(stats[j]))
                => FirstMatchOf(desc, stats[i]) < FirstMatchOf(desc, stats[j])

\* C12: text order holds within the currency family and within the percentage
\* family only; across the two, every currency entry is listed before every
\* percentage entry wherever they occur in the description.
C12_TextOrderWithinFamily ==
    pc = "done" =>
        \A i, j \in 1..Len(stats) :
            (i < j /\ IsFigureEntry(stats[i]) /\ IsFigureEntry(stats[j])) =>
                IF FamilyRank(stats[i].label) = FamilyRank(stats[j].label)
                THEN FirstMatchOf(desc, stats[i]) < FirstMatchOf(desc, stats[j])
                ELSE stats[i].label \in CurrencyLabels

C12_Witness ==
    /\ pc = "done"
    /\ \E i, j \in 1..Len(stats) :
           /\ i < j /\ stats[i].label \in CurrencyLabels /\ stats[j].label \in CurrencyLabels
    /\ \E i, j \in 1..Len(stats) :
           /\ i < j /\ stats[i].label \in CurrencyLabels /\ stats[j].label \in PercentLabels
           /\ FirstMatchOf(desc, stats[j]) < FirstMatchOf(desc, stats[i])

\* the label of the first figure, in scanning order, that has the value
FirstLabelOf(figs, value) ==
    figs[Min({k \in 1..Len(figs) : figs[k].value = value})].label

\* C13: every entry keeps the label of the first figure that has its value, also
\* when a later family finds the same string, and a repeated value takes no slot:
\* the result has as many entries as there are distinct values, up to 4.
C13_FirstLabelKeptNoSlotLost ==
    pc = "done" =>
        LET figs == FamilyFigures(desc)
            values == {figs[k].value : k \in 1..Len(figs)}
        IN  /\ \A k \in 1..Len(stats) :
                   /\ stats[k].value \in values
                   /\ stats[k].label = FirstLabelOf(figs, stats[k].value)
                   /\ \A h \in 1..Len(stats) : h # k => stats[h].value # stats[k].value
            /\ Len(stats) = Min({MaxStats, Cardinality(values)})

\* Team Size "12" kept, Projects "12" rejected, and the Markets figure scanned after
\* the rejected one takes the fourth slot
C13_Witness ==
    /\ pc = "done" /\ Len(stats) = 4
    /\ teamMatch(desc) # <<>> /\ teamMatch(desc) = countMatch(desc, ProjectNouns)
    /\ \E k \in 1..Len(stats) : stats[k].label = "Team Size"
    /\ stats[4].label = "Markets"

\* C14: for "We grew revenue by 35% and led a team of 12 people." extractStats
\* returns exactly 35% labelled Revenue Growth, then 12 labelled Team Size.
C14_GrewRevenueExample ==
    (pc = "done" /\ desc = GrewRevenue) =>
        stats = <<[value |-> "35%", label |-> "Revenue Growth"],
                  [value |-> "12", label |-> "Team Size"]>>

C14_Witness ==
    pc = "done" /\ desc = GrewRevenue /\ Len(stats) = 2

HasDigit(t) == \E i \in 1..Len(t) : IsDigit(Char(t, i))

NoFamilyMatches(t) ==
    /\ currencyMatches(t) = <<>> /\ percentMatches(t) = <<>> /\ teamMatch(t) = <<>>
    /\ countMatch(t, ClientNouns) = <<>>
    /\ countMatch(t, ProjectNouns) = <<>>
    /\ countMatch(t, MarketNouns) = <<>>

\* C15: extractStats returns the empty list for the empty string, for every
\* description without a digit and for every description in which none of the
\* six families matches.
C15_EmptyWhenNothingMatches ==
    pc = "done" =>
        /\ (desc = "" \/ ~HasDigit(desc) \/ NoFamilyMatches(desc)) => stats = <<>>
        /\ ~HasDigit(desc) => NoFamilyMatches(desc)

\* a description with digits next to a family noun in which no family matches
C15_Witness ==
    /\ pc = "done" /\ stats = <<>>
    /\ HasDigit(desc) /\ contains(toLowerCase(desc), "office")

(***************************************************************************)
(* Claims about Home and the two routes.                                   *)
(***************************************************************************)
ListFields == {"experience", "education", "skills"}

\* C20: the cv that Home holds in the 'result' state, whichever route produced
\* it, has experience, education and skills defined as lists.
C20_ListsAlwaysDefined ==
    state = "result" => \A k \in ListFields : has(cv, k)

\* the lower-cased text of the before characters in front of the match and the
\* after characters behind it, the match itself left out
WindowOf(t, m, before, after) ==
    toLowerCase(SubSeq(t, Max({1, m.first - before}), m.first - 1)
                    \o SubSeq(t, m.last + 1, Min({Len(t), m.last + after})))

\* the label of the first class, in the order given, one of whose keywords is in
\* the window; otherwise the default label
RECURSIVE FirstClassIn(_, _, _)
FirstClassIn(window, classes, default) ==
    IF classes = <<>> THEN default
    ELSE IF \E w \in classes[1].words : contains(window, w) THEN classes[1].label
    ELSE FirstClassIn(window, Tail(classes), default)

CurrencyClasses ==
    << [words |-> {"sav"}, label |-> "Savings"],
       [words |-> {"revenue", "sales"}, label |-> "Revenue"],
       [words |-> {"fund"}, label |-> "Funding"],
       [words |-> {"contract", "deal"}, label |-> "Contracts"],
       [words |-> {"budget"}, label |-> "Budget"] >>

PercentClasses ==
    << [words |-> {"revenue", "sales", "grow"}, label |-> "Revenue Growth"],
       [words |-> {"cost", "spend", "budget"}, label |-> "Cost Reduction"],
       [words |-> {"efficien"}, label |-> "Efficiency Gain"],
       [words |-> {"retention", "churn"}, label |-> "Retention"],
       [words |-> {"conversion"}, label |-> "Conversion"],
       [words |-> {"reduc", "decreas", "cut"}, label |-> "Reduction"] >>

\* the entries of the result whose value is v
EntriesWithValue(v) == {k \in 1..Len(stats) : stats[k].value = v}

\* the match is the first of ms that gives its value
IsFirstWithValue(t, ms, k, ValueOf(_, _)) ==
    \A h \in 1..(k - 1) : ValueOf(t, ms[h]) # ValueOf(t, ms[k])

\* C21: the entry of every currency figure carries the label of the first class
\* (Savings, Revenue, Funding, Contracts, Budget, otherwise Value) that has a
\* keyword in the 35 characters before and the 35 characters after its first match.
C21_CurrencyLabelFromWindow ==
    pc = "done" =>
        LET ms == currencyMatches(desc)
        IN  \A k \in 1..Len(ms) :
                IsFirstWithValue(desc, ms, k, currencyValue) =>
                    \A e \in EntriesWithValue(currencyValue(desc, ms[k])) :
                        stats[e].label
                            = FirstClassIn(WindowOf(desc, ms[k], 35, 35), CurrencyClasses, "Value")

\* a savings word in the description but outside the window: the label is Value
C21_Witness ==
    /\ pc = "done" /\ contains(toLowerCase(desc), "sav")
    /\ Len(stats) = 1 /\ stats[1] = [value |-> "$5M", label |-> "Value"]

\* C22: the entry of every percentage carries the label of the first class
\* (Revenue Growth, Cost Reduction, Efficiency Gain, Retention, Conversion,
\* Reduction, otherwise Improvement) that has a keyword in the 45 characters before
\* and the 35 characters after its first match; the label is one of the seven.
C22_PercentLabelFromWindow ==
    pc = "done" =>
        LET ms == percentMatches(desc)
        IN  \A k \in 1..Len(ms) :
                IsFirstWithValue(desc, ms, k, percentValue) =>
                    \A e \in EntriesWithValue(percentValue(desc, ms[k])) :
                        /\ stats[e].label
                               = FirstClassIn(WindowOf(desc, ms[k], 45, 35), PercentClasses,
                                              "Improvement")
                        /\ stats[e].label \in PercentLabels

\* a sales word more than 35 and at most 45 characters before the percentage
C22_Witness ==
    /\ pc = "done" /\ desc = "Sales up; yet in the last quarter margin was 8%"
    /\ stats = <<[value |-> "8%", label |-> "Revenue Growth"]>>

\* the positions where "team of " (any letter case) is followed by a digit
TeamOfPositions(t) ==
    {i \in 1..Len(t) : /\ startsWithAt(toLowerCase(t), i, "team of ")
                       /\ IsDigit(charAt(t, i + 8))}

\* the N of the first "team of N": the digits that follow, three at most
FirstTeamOfNumber(t) ==
    LET d == Min(TeamOfPositions(t)) + 8
    IN  SubSeq(t, d, Min({d + 2} \cup {j \in d..Len(t) : ~IsDigit(charAt(t, j + 1))}))

\* C23: with a "team of N" in the description and fewer than 4 distinct currency
\* and percentage values, the result has exactly one Team Size entry; its value is
\* the capture of the leadership-verb pattern when that pattern matches, and
\* otherwise the N of the first "team of N".
C23_TeamSizeFromTeamOf ==
    (pc = "done" /\ TeamOfPositions(desc) # {} /\ Cardinality(FigureValues(desc)) < 4) =>
        /\ Cardinality({k \in 1..Len(stats) : stats[k].label = "Team Size"}) = 1
        /\ \A k \in 1..Len(stats) :
               stats[k].label = "Team Size" =>
                   stats[k].value = IF teamVerbMatch(desc) # <<>> THEN teamVerbMatch(desc)[1]
                                    ELSE FirstTeamOfNumber(desc)

\* the leadership-verb pattern and "team of N" capture different numbers
C23_Witness ==
    /\ pc = "done" /\ TeamOfPositions(desc) # {} /\ teamVerbMatch(desc) # <<>>
    /\ teamVerbMatch(desc)[1] # FirstTeamOfNumber(desc)
    /\ \E k \in 1..Len(stats) :
           stats[k].label = "Team Size" /\ stats[k].value = teamVerbMatch(desc)[1]

\* a non-empty string of digits
IsNumber(v) == Len(v) > 0 /\ \A i \in 1..Len(v) : IsDigit(charAt(v, i))

\* s occurs in t
Contains(t, s) == \E i \in 1..Len(t) : startsWithAt(t, i, s)

\* C24: every Clients or Markets entry has a value ending with '+', whether or not
\* a '+' follows the number in the description, and every Team Size or Projects
\* entry has a value made of digits only.
C24_PlusSuffixAndBareNumbers ==
    pc = "done" =>
        \A k \in 1..Len(stats) :
            /\ stats[k].label \in {"Clients", "Markets"} =>
                   /\ Len(stats[k].value) > 1
                   /\ charAt(stats[k].value, Len(stats[k].value)) = "+"
                   /\ IsNumber(SubSeq(stats[k].value, 1, Len(stats[k].value) - 1))
            /\ stats[k].label \in {"Team Size", "Projects"} => IsNumber(stats[k].value)

\* a Markets value whose '+' is not in the description, next to a bare number
C24_Witness ==
    /\ pc = "done"
    /\ \E k \in 1..Len(stats) : stats[k].label = "Markets" /\ ~Contains(desc, stats[k].value)
    /\ \E k \in 1..Len(stats) : stats[k].label = "Clients" /\ Contains(desc, stats[k].value)
    /\ \E k \in 1..Len(stats) : stats[k].label \in {"Team Size", "Projects"}

\* the words country, market, region, office and site, singular and plural
PlaceWords ==
    {"country", "countries", "market", "markets", "region", "regions",
     "office", "offices", "site", "sites"}

\* the entries that the families before Markets emitted
BeforeMarkets == {k \in 1..Len(stats) : stats[k].label # "Markets"}

\* C25: a number N (optionally followed by '+') directly before one of the words
\* country, market, region, office or site, singular or plural, gives the entry
\* {N+, Markets} for the first such occurrence, provided the earlier families
\* left a slot and N+ was not emitted before.
C25_MarketsForNumberedPlaces ==
    LET m == countMatch(desc, PlaceWords)
    IN  (/\ pc = "done"
         /\ m # <<>>
         /\ Cardinality(BeforeMarkets) < 4
         /\ \A k \in BeforeMarkets : stats[k].value # m[1] \o "+") =>
            \E k \in 1..Len(stats) : stats[k] = [value |-> m[1] \o "+", label |-> "Markets"]

(***************************************************************************)
(* Further claims about deriveTraits.                                      *)
(***************************************************************************)
\* t, lower-cased, has a word that begins with "strateg"
HasStrategyWord(t) ==
    LET low == toLowerCase(t)
    IN  \E i \in wordBoundaries(low) : patternAt(low, i, "strateg")

C27_LoadingNeverStuck ==
    /\ [](state = "loading" => request # None)
    /\ [][(request # None /\ request' = None) => state' \in {"result", "idle"}]_vars
    /\ (state = "loading") ~> (state \in {"result", "idle"})

\* a request is in flight for a pasted profile text
C27_Witness ==
    /\ state = "loading"
    /\ request # None
    /\ request.route = "/api/parse"
    /\ trim(request.body) # ""

\* what the route of the request in flight can answer
Responses ==
    IF request = None THEN {}
    ELSE IF request.route = "/api/scrape"
    THEN {scrapePOST(request.body, env) : env \in ScrapeEnvs}
    ELSE {parsePOST(request.body, env) : env \in ParseEnvs}

\* an OK response without an error field
IsSuccess(res) == ok(res) /\ orEmpty(res.json, "error") = ""

\* the body has a data object
HasData(res) == has(res.json, "data") /\ res.json.data # Null

\* C28: state = "result" implies that cv is non-null and error is null; cv becomes
\* non-null only on a successful generate response, and null again only through
\* handleReset.
C28_ResultHasCvAndNoError ==
    /\ [](state = "result" => (cv # Null /\ error = Null))
    /\ [][(cv = Null /\ cv' # Null) =>
             \E res \in Responses :
                 /\ IsSuccess(res) /\ HasData(res)
                 /\ cv' = mergeData(res.json.data, request)
                 /\ state' = "result"]_vars
    /\ [][(cv # Null /\ cv' = Null) => (PageShown /\ handleReset)]_vars

\* the page is shown for a request that carried personal details
C28_Witness ==
    /\ state = "result"
    /\ cv # Null
    /\ error = Null
    /\ has(cv, "personalInfo")
    /\ has(cv, "name")

\* a response that handleGenerate treats as a failure: not OK, an error field, or
\* no data object in the body
IsFailure(res) == ~ok(res) \/ orEmpty(res.json, "error") # "" \/ ~HasData(res)

\* the step in which the request in flight fails
FailureStep ==
    /\ request # None
    /\ \/ \E message \in RejectMessages : FetchRejects(message)
       \/ \E res \in Responses : IsFailure(res) /\ resume(res)

\* C29: when a generate request fails (the fetch rejects, the response is not OK,
\* the body has an error field or no usable data), Home goes back to "idle" with
\* error set to a message and cv left null, and url, text, mode, photoUrl,
\* photoPreview and personalInfo are unchanged; the next handleGenerate clears
\* the error.
C29_FailureGoesIdleWithError ==
    /\ [][FailureStep =>
             /\ state' = "idle"
             /\ error' # Null /\ error'.message # ""
             /\ cv = Null /\ cv' = Null
             /\ UNCHANGED <<url, profileText, mode, photoUrl, photoPreview, personalInfo>>]_vars
    /\ [][(state # "loading" /\ state' = "loading") => error' = Null]_vars

\* back on the form after a failure, with what the user typed still there
C29_Witness ==
    /\ state = "idle"
    /\ error # Null
    /\ cv = Null
    /\ request = None
    /\ mode = "paste" /\ trim(profileText) # ""
    /\ personalInfo # ""

\* the step of the onReset buttons: they are the only controls of the shown page
ResetStep == PageShown /\ state' # "result"

\* C30: handleReset sets state to "idle", url, text, photoUrl, photoPreview and
\* personalInfo to the empty string, showPersonal to false, cv and error to null,
\* and leaves the input mode unchanged.
C30_ResetClearsAllButMode ==
    [][ResetStep =>
          /\ state' = "idle"
          /\ url' = "" /\ profileText' = "" /\ photoUrl' = "" /\ photoPreview' = ""
          /\ personalInfo' = ""
          /\ showPersonal' = FALSE
          /\ cv' = Null
          /\ error' = Null
          /\ mode' = mode]_vars

\* the page is shown in paste mode with every field that handleReset clears set
C30_Witness ==
    /\ PageShown
    /\ mode = "paste"
    /\ url # "" /\ profileText # "" /\ photoUrl # "" /\ photoPreview # ""
    /\ personalInfo # "" /\ showPersonal

====
